---- MODULE Spec2Model ----
(***************************************************************************)
(* A model of the GridModel facade of lightsim2grid (src/src/GridModel.cpp *)
(* and src/src/GridModel.h): the members of one grid instance, the public  *)
(* operations that mutate it and the solve calls ac_pf, dc_pf and          *)
(* dc_pf_old with their assembly pipeline (reset, init_Ybus, fillYbus,     *)
(* fillpv_pq, fillSbus_me) and their result handling (process_results).    *)
(*                                                                         *)
(* Vectors are sequences; the code's 0-based index i is position i + 1.    *)
(* Real and complex quantities are integers (a complex number is a pair    *)
(* <<re, im>>).  The element collections (DataLine, DataGen, ...) and the  *)
(* solver (ChooseSolver) are not part of the sources at hand; the parts of *)
(* them the facade calls are modelled from the specification and are       *)
(* marked as such where they are defined.                                  *)
(***************************************************************************)
EXTENDS Integers, Sequences, FiniteSets, TLC

\* Number of buses of the grid (bus_vn_kv_.size()).
NBus == 3
\* Number of public calls made on the grid in one behaviour.
MaxSteps == 3

\* The value id_me_to_solver holds for a disconnected bus.
deactivated_bus_id == -1

Families == <<"powerlines_", "shunts_", "trafos_", "loads_", "generators_", "sgens_", "storages_">>
FamilySet == {Families[i] : i \in 1..Len(Families)}
\* The families GridModel.cpp iterates over in fillYbus, fillSbus_me, fillpv_pq,
\* compute_results and reset_results.
CppFamilies == <<"powerlines_", "shunts_", "trafos_", "loads_", "generators_">>
CppFamilySet == {CppFamilies[i] : i \in 1..Len(CppFamilies)}

BusIds == 0..(NBus - 1)
\* The new setpoint a change_p, change_q or change_v call gives.
PValues == {5}
SolverTypes == {"SparseLU", "KLU", "DC"}

\* 0-based access to a vector.
At(v, i) == v[i + 1]
SetAt(v, i, x) == [v EXCEPT ![i + 1] = x]
Constant(n, x) == [i \in 1..n |-> x]

\* One element of a collection: its status, its bus (bus2: the other end of a
\* line or transformer, else -1) and its setpoints.
Element(st, b, b2, pp, qq, vv) ==
    [status |-> st, bus |-> b, bus2 |-> b2, p |-> pp, q |-> qq, v |-> vv]

\* The grid once init_bus, init_powerlines, ..., init_storages and
\* add_gen_slackbus(0) have run: every bus and element connected.  A line and
\* a transformer join buses 0 and 2; bus 1 hosts a load.
InitElements ==
    [powerlines_ |-> << Element(TRUE, 0, 2, 0, 0, 0) >>,
     shunts_     |-> << Element(TRUE, 2, -1, 1, 1, 0) >>,
     trafos_     |-> << Element(TRUE, 0, 2, 0, 0, 0) >>,
     loads_      |-> << Element(TRUE, 1, -1, 2, 1, 0) >>,
     generators_ |-> << Element(TRUE, 0, -1, 3, 0, 1), Element(TRUE, 2, -1, 1, 0, 1) >>,
     sgens_      |-> << Element(TRUE, 1, -1, 1, 0, 0) >>,
     storages_   |-> << Element(TRUE, 2, -1, 1, 0, 0) >>]

NoResults == [f \in FamilySet |-> "empty"]

\* ChooseSolver: the selected type and what the solver holds (nothing after
\* reset, V after a compute_pf).
InitSolver == [type |-> "SparseLU", state |-> "reset", V |-> << >>]

VARIABLES
    g,      \* the GridModel instance: its members
    last,   \* the last public call: its name, outcome and the steps it ran
    steps   \* number of calls made

vars == <<steps, g, last>>

\* GridModel() (GridModel.h:68) followed by the init_* calls.
InitGrid(sb) ==
    [need_reset_ |-> TRUE,
     compute_results_ |-> TRUE,
     bus_status_ |-> Constant(NBus, TRUE),
     id_me_to_solver_ |-> << >>,
     id_solver_to_me_ |-> << >>,
     el |-> InitElements,
     res |-> NoResults,
     gen_slackbus_ |-> 0,
     slack_bus_id_ |-> sb,
     slack_bus_id_solver_ |-> -1,
     Ybus_ |-> << >>,
     Sbus_ |-> << >>,
     bus_pv_ |-> << >>,
     bus_pq_ |-> << >>,
     solver |-> InitSolver]

----
\* ChooseSolver::reset (called by GridModel::reset): the solver forgets its V.
solver_reset(s) == [s EXCEPT !.state = "reset", !.V = << >>]

\* ChooseSolver::change_solver.
solver_change(s, type) == [s EXCEPT !.type = type]

\* reset leaving the solver as it is.
reset_keeps_solver(grid) ==
    [grid EXCEPT !.Ybus_ = << >>,
                 !.Sbus_ = << >>,
                 !.id_me_to_solver_ = << >>,
                 !.id_solver_to_me_ = << >>,
                 !.slack_bus_id_solver_ = -1,
                 !.bus_pv_ = << >>,
                 !.bus_pq_ = << >>,
                 !.need_reset_ = TRUE]

\* GridModel::reset.
reset(grid) ==
    [grid EXCEPT !.Ybus_ = << >>,
                 !.Sbus_ = << >>,
                 !.id_me_to_solver_ = << >>,
                 !.id_solver_to_me_ = << >>,
                 !.slack_bus_id_solver_ = -1,
                 !.bus_pv_ = << >>,
                 !.bus_pq_ = << >>,
                 !.need_reset_ = TRUE,
                 !.solver = solver_reset(grid.solver)]

\* GridModel(const GridModel & other) (GridModel.cpp:11-60): reset() on a new
\* object, then the solver type, compute_results_, bus_status_, the five
\* collections, each with its results, and the slack of other; sgens_ and
\* storages_ are not assigned and stay as constructed, with no element.
GridModel_copy(other) ==
    [need_reset_ |-> TRUE,
     compute_results_ |-> other.compute_results_,
     bus_status_ |-> other.bus_status_,
     id_me_to_solver_ |-> << >>,
     id_solver_to_me_ |-> << >>,
     el |-> [other.el EXCEPT !.sgens_ = << >>, !.storages_ = << >>],
     res |-> [other.res EXCEPT !.sgens_ = "empty", !.storages_ = "empty"],
     gen_slackbus_ |-> other.gen_slackbus_,
     slack_bus_id_ |-> other.slack_bus_id_,
     slack_bus_id_solver_ |-> -1,
     Ybus_ |-> << >>,
     Sbus_ |-> << >>,
     bus_pv_ |-> << >>,
     bus_pq_ |-> << >>,
     solver |-> solver_change(solver_reset(InitSolver), other.solver.type)]

----
\* DataGeneric::_deactivate / _reactivate, as called on bus_status_: the status
\* is set and the flag passed by reference (need_reset_) is raised.
set_status(statuses, id, val) == SetAt(statuses, id, val)

\* deactivate_bus and a reactivate_bus that deactivates as well.
change_bus_status_off(grid, bus_id, val) ==
    [grid EXCEPT !.bus_status_ = set_status(grid.bus_status_, bus_id, FALSE),
                 !.need_reset_ = TRUE]

\* deactivate_bus / reactivate_bus (GridModel.h:187,189).
change_bus_status(grid, bus_id, val) ==
    [grid EXCEPT !.bus_status_ = set_status(grid.bus_status_, bus_id, val),
                 !.need_reset_ = TRUE]

\* deactivate_X / reactivate_X of an element family.
change_el_status(grid, f, id, val) ==
    [grid EXCEPT !.el[f][id + 1].status = val,
                 !.need_reset_ = TRUE]

\* change_bus_X: side 1 is the bus (or / hv), side 2 the other end (ex / lv).
change_el_bus(grid, f, id, side, new_bus_id) ==
    [grid EXCEPT !.el[f][id + 1] =
                     IF side = 1 THEN [@ EXCEPT !.bus = new_bus_id]
                                 ELSE [@ EXCEPT !.bus2 = new_bus_id],
                 !.need_reset_ = TRUE]

\* change_p_X, change_q_X, change_v_gen.
change_el_value(grid, f, id, field, new_value) ==
    [grid EXCEPT !.el[f][id + 1] =
                     CASE field = "p" -> [@ EXCEPT !.p = new_value]
                       [] field = "q" -> [@ EXCEPT !.q = new_value]
                       [] OTHER -> [@ EXCEPT !.v = new_value],
                 !.need_reset_ = TRUE]

\* GridModel::change_solver (GridModel.h:76).
change_solver_grid(grid, type) ==
    [grid EXCEPT !.need_reset_ = TRUE,
                 !.solver = solver_change(grid.solver, type)]

----
\* Complex numbers as pairs.
CZero == <<0, 0>>
CAdd(a, b) == <<a[1] + b[1], a[2] + b[2]>>
CNeg(a) == <<0 - a[1], 0 - a[2]>>

\* DataGen::get_slack_bus_id: the bus of the slack generator; an id that is no
\* generator's, or a deactivated generator, is an error.
get_slack_bus_id(gens, gen_id) ==
    IF gen_id < 0 \/ gen_id >= Len(gens) THEN [err |-> "SlackInvalid", val |-> -1]
    ELSE IF ~At(gens, gen_id).status THEN [err |-> "SlackInvalid", val |-> -1]
    ELSE [err |-> "", val |-> At(gens, gen_id).bus]

\* init_Ybus's loop without its test of bus_status_: every bus gets a dense
\* index.
init_Ybus_loop_all(bus_status, bus_id_me, id_me_to_solver, id_solver_to_me) ==
    [id_me_to_solver |-> [i \in 1..Len(bus_status) |-> i - 1],
     id_solver_to_me |-> [i \in 1..Len(bus_status) |-> i - 1]]

\* init_Ybus's loop scanning bus_status_ from its last bus down: the connected
\* bus with r connected buses above it gets the dense index r.
init_Ybus_loop_reversed(bus_status, bus_id_me, id_me_to_solver, id_solver_to_me) ==
    [id_me_to_solver |->
         [i \in 1..Len(bus_status) |->
             IF bus_status[i]
             THEN Cardinality({k \in (i + 1)..Len(bus_status) : bus_status[k]})
             ELSE deactivated_bus_id],
     id_solver_to_me |->
         [j \in 1..Cardinality({k \in 1..Len(bus_status) : bus_status[k]}) |->
             (CHOOSE i \in 1..Len(bus_status) :
                  /\ bus_status[i]
                  /\ Cardinality({k \in (i + 1)..Len(bus_status) : bus_status[k]}) = j - 1)
                 - 1]]

\* The loop of init_Ybus (GridModel.cpp:250-257): connected buses get the next
\* dense index, in scan order.
RECURSIVE init_Ybus_loop(_, _, _, _)
init_Ybus_loop(bus_status, bus_id_me, id_me_to_solver, id_solver_to_me) ==
    IF bus_id_me >= Len(bus_status) THEN
        [id_me_to_solver |-> id_me_to_solver, id_solver_to_me |-> id_solver_to_me]
    ELSE IF At(bus_status, bus_id_me) THEN
        init_Ybus_loop(bus_status, bus_id_me + 1,
                       SetAt(id_me_to_solver, bus_id_me, Len(id_solver_to_me)),
                       Append(id_solver_to_me, bus_id_me))
    ELSE init_Ybus_loop(bus_status, bus_id_me + 1, id_me_to_solver, id_solver_to_me)

\* init_Ybus without its slack test.
init_Ybus_slack_err_never(slack_bus_id_solver) == ""

\* The slack test of init_Ybus (GridModel.cpp:264-268).
init_Ybus_slack_err(slack_bus_id_solver) ==
    IF slack_bus_id_solver = deactivated_bus_id THEN "SlackDisconnected" ELSE ""

\* What init_Ybus writes through its reference parameters once the maps are
\* built (GridModel.cpp:258-268), and the exception it ends with.
init_Ybus_out(maps, slack_bus_id) ==
    [id_me_to_solver |-> maps.id_me_to_solver,
     id_solver_to_me |-> maps.id_solver_to_me,
     Ybus |-> Constant(Len(maps.id_solver_to_me), Constant(Len(maps.id_solver_to_me), CZero)),
     Sbus |-> Constant(Len(maps.id_solver_to_me), CZero),
     slack_bus_id_solver |-> At(maps.id_me_to_solver, slack_bus_id),
     err |-> init_Ybus_slack_err(At(maps.id_me_to_solver, slack_bus_id))]

\* GridModel::init_Ybus.
init_Ybus(bus_status, slack_bus_id) ==
    init_Ybus_out(init_Ybus_loop(bus_status, 0,
                                 Constant(Len(bus_status), deactivated_bus_id), << >>),
                  slack_bus_id)

----
\* The element collections' contributions to Y (DataLine, DataShunt,
\* DataTrafo ::fillYbus), as lists of triplets <<row, col, value>>.
LineY(ac) == IF ac THEN <<1, -3>> ELSE <<3, 0>>
LineH(ac) == IF ac THEN <<0, 1>> ELSE CZero
TrafoY(ac) == IF ac THEN <<2, -4>> ELSE <<4, 0>>

BranchTriplets(a, b, ys, yh) ==
    << <<a, a, CAdd(ys, yh)>>, <<b, b, CAdd(ys, yh)>>, <<a, b, CNeg(ys)>>, <<b, a, CNeg(ys)>> >>

\* The triplets a line or a transformer between solver buses a and b stamps.
branch_fillYbus(f, a, b, ac) ==
    IF a = deactivated_bus_id \/ b = deactivated_bus_id
    THEN [err |-> "DisconnectedBusReferenced", trip |-> << >>]
    ELSE [err |-> "",
          trip |-> IF f = "powerlines_" THEN BranchTriplets(a, b, LineY(ac), LineH(ac))
                   ELSE BranchTriplets(a, b, TrafoY(ac), CZero)]

\* The triplet a shunt at solver bus a stamps.
shunt_fillYbus(e, a, ac) ==
    IF a = deactivated_bus_id THEN [err |-> "DisconnectedBusReferenced", trip |-> << >>]
    ELSE [err |-> "", trip |-> IF ac THEN << <<a, a, <<0 - e.p, 0 - e.q>> >> >> ELSE << >>]

\* The triplets one element stamps; an active element on a disconnected bus is
\* an error.  Loads and generators stamp nothing.
el_fillYbus(f, e, ac, id_me_to_solver) ==
    IF ~e.status THEN [err |-> "", trip |-> << >>]
    ELSE IF f \in {"powerlines_", "trafos_"}
        THEN branch_fillYbus(f, At(id_me_to_solver, e.bus), At(id_me_to_solver, e.bus2), ac)
    ELSE IF f = "shunts_" THEN shunt_fillYbus(e, At(id_me_to_solver, e.bus), ac)
    ELSE [err |-> "", trip |-> << >>]

AddTriplets(acc, r) == [err |-> r.err, trip |-> acc.trip \o r.trip]

\* X::fillYbus over a whole collection, from element id on.
RECURSIVE family_fillYbus(_, _, _, _, _, _)
family_fillYbus(f, els, id, ac, id_me_to_solver, acc) ==
    IF acc.err # "" \/ id >= Len(els) THEN acc
    ELSE family_fillYbus(f, els, id + 1, ac, id_me_to_solver,
                         AddTriplets(acc, el_fillYbus(f, At(els, id), ac, id_me_to_solver)))

\* The collections fillYbus calls, in its order (GridModel.cpp:280-284).
RECURSIVE fillYbus_families(_, _, _, _, _, _)
fillYbus_families(fams, k, el, ac, id_me_to_solver, acc) ==
    IF acc.err # "" \/ k > Len(fams) THEN acc
    ELSE fillYbus_families(fams, k + 1, el, ac, id_me_to_solver,
                           family_fillYbus(fams[k], el[fams[k]], 0, ac, id_me_to_solver, acc))

\* Eigen's setFromTriplets: duplicate coordinates sum.
RECURSIVE SumTriplets(_, _, _)
SumTriplets(trip, row, col) ==
    IF trip = << >> THEN CZero
    ELSE IF Head(trip)[1] = row /\ Head(trip)[2] = col
        THEN CAdd(Head(trip)[3], SumTriplets(Tail(trip), row, col))
    ELSE SumTriplets(Tail(trip), row, col)

setFromTriplets(res, trip) ==
    [r \in 1..Len(res) |-> [c \in 1..Len(res) |-> SumTriplets(trip, r - 1, c - 1)]]

\* The end of fillYbus (GridModel.cpp:285): the matrix is written only when
\* no collection threw.
fillYbus_out(res, t) ==
    IF t.err # "" THEN [Ybus |-> res, err |-> t.err]
    ELSE [Ybus |-> setFromTriplets(res, t.trip), err |-> ""]

\* GridModel::fillYbus.
fillYbus(res, ac, id_me_to_solver, el) ==
    fillYbus_out(res, fillYbus_families(CppFamilies, 1, el, ac, id_me_to_solver,
                                        [err |-> "", trip |-> << >>]))

----
\* DataGen::fillpv for one generator e at solver bus bus_id_solver: an active
\* generator marks its bus as PV unless that bus is the slack bus or was added
\* already; an active generator on a disconnected bus is an error.
gen_fillpv(e, bus_id_solver, acc, slack_bus_id_solver) ==
    IF ~e.status THEN acc
    ELSE IF bus_id_solver = deactivated_bus_id
        THEN [acc EXCEPT !.err = "DisconnectedBusReferenced"]
    ELSE IF bus_id_solver = slack_bus_id_solver THEN acc
    ELSE IF At(acc.has_bus_been_added, bus_id_solver) THEN acc
    ELSE [acc EXCEPT !.bus_pv = Append(acc.bus_pv, bus_id_solver),
                     !.has_bus_been_added = SetAt(@, bus_id_solver, TRUE)]

\* DataGen::fillpv.
RECURSIVE generators_fillpv(_, _, _, _, _)
generators_fillpv(gens, gen_id, acc, slack_bus_id_solver, id_me_to_solver) ==
    IF acc.err # "" \/ gen_id >= Len(gens) THEN acc
    ELSE generators_fillpv(gens, gen_id + 1,
                           gen_fillpv(At(gens, gen_id),
                                      At(id_me_to_solver, At(gens, gen_id).bus),
                                      acc, slack_bus_id_solver),
                           slack_bus_id_solver, id_me_to_solver)

\* The PQ loop's test without its first line: the slack bus is not left out.
fillpv_pq_skip_keeps_slack(bus_id, slack_bus_id_solver, has_bus_been_added) ==
    At(has_bus_been_added, bus_id)

\* The PQ loop's test without its second line: the PV buses are not left out.
fillpv_pq_skip_keeps_pv(bus_id, slack_bus_id_solver, has_bus_been_added) ==
    bus_id = slack_bus_id_solver

\* The test of the PQ loop of fillpv_pq (GridModel.cpp:321-322): is bus_id
\* left out of pq?
fillpv_pq_skip(bus_id, slack_bus_id_solver, has_bus_been_added) ==
    \/ bus_id = slack_bus_id_solver
    \/ At(has_bus_been_added, bus_id)

\* The PQ loop of fillpv_pq (GridModel.cpp:320-325).
RECURSIVE fillpv_pq_loop(_, _, _, _, _)
fillpv_pq_loop(bus_id, nb_bus, slack_bus_id_solver, has_bus_been_added, bus_pq) ==
    IF bus_id >= nb_bus THEN bus_pq
    ELSE IF fillpv_pq_skip(bus_id, slack_bus_id_solver, has_bus_been_added)
        THEN fillpv_pq_loop(bus_id + 1, nb_bus, slack_bus_id_solver, has_bus_been_added, bus_pq)
    ELSE fillpv_pq_loop(bus_id + 1, nb_bus, slack_bus_id_solver,
                        SetAt(has_bus_been_added, bus_id, TRUE), Append(bus_pq, bus_id))

\* The end of fillpv_pq once the collections have added their PV buses
\* (GridModel.cpp:320-327).  bus_pv_ and bus_pq_ are emptied first and written
\* last, so they are empty when a fillpv throws.
fillpv_pq_out(grid, pv) ==
    IF pv.err # "" THEN [bus_pv |-> << >>, bus_pq |-> << >>, err |-> pv.err]
    ELSE [bus_pv |-> pv.bus_pv,
          bus_pq |-> fillpv_pq_loop(0, Len(grid.id_solver_to_me_), grid.slack_bus_id_solver_,
                                    pv.has_bus_been_added, << >>),
          err |-> ""]

\* GridModel::fillpv_pq.  Only the generators' fillpv adds buses: the other
\* collections inherit the empty one.
fillpv_pq(grid) ==
    fillpv_pq_out(grid,
        generators_fillpv(grid.el.generators_, 0,
                          [bus_pv |-> << >>, err |-> "",
                           has_bus_been_added |-> Constant(Len(grid.id_solver_to_me_), FALSE)],
                          grid.slack_bus_id_solver_, grid.id_me_to_solver_))

----
\* What one element injects (X::fillSbus): a load subtracts P + jQ, a
\* generator adds P, a shunt counts as a load of P in DC only.
el_injection(f, e, ac) ==
    CASE f = "loads_" -> <<0 - e.p, IF ac THEN 0 - e.q ELSE 0>>
      [] f = "generators_" -> <<e.p, 0>>
      [] f = "shunts_" -> IF ac THEN CZero ELSE <<0 - e.p, 0>>
      [] OTHER -> CZero

\* X::fillSbus for one element at solver bus a; lines and transformers add
\* nothing; an active element on a disconnected bus is an error.
el_fillSbus(f, e, a, ac, acc) ==
    IF ~e.status \/ f \in {"powerlines_", "trafos_"} THEN acc
    ELSE IF a = deactivated_bus_id THEN [acc EXCEPT !.err = "DisconnectedBusReferenced"]
    ELSE [acc EXCEPT !.Sbus = SetAt(@, a, CAdd(At(@, a), el_injection(f, e, ac)))]

RECURSIVE family_fillSbus(_, _, _, _, _, _)
family_fillSbus(f, els, id, ac, id_me_to_solver, acc) ==
    IF acc.err # "" \/ id >= Len(els) THEN acc
    ELSE family_fillSbus(f, els, id + 1, ac, id_me_to_solver,
                         el_fillSbus(f, At(els, id), At(id_me_to_solver, At(els, id).bus),
                                     ac, acc))

\* The collections fillSbus_me calls, in its order (GridModel.cpp:292-296).
RECURSIVE fillSbus_families(_, _, _, _, _, _)
fillSbus_families(fams, k, el, ac, id_me_to_solver, acc) ==
    IF acc.err # "" \/ k > Len(fams) THEN acc
    ELSE fillSbus_families(fams, k + 1, el, ac, id_me_to_solver,
                           family_fillSbus(fams[k], el[fams[k]], 0, ac, id_me_to_solver, acc))

RECURSIVE SumReal(_)
SumReal(v) == IF v = << >> THEN 0 ELSE Head(v)[1] + SumReal(Tail(v))

\* fillSbus_me without its slack correction.
fillSbus_slack_none(res, slack_bus_id_solver) == res

\* The slack correction of fillSbus_me (GridModel.cpp:299-300).
fillSbus_slack(res, slack_bus_id_solver) ==
    SetAt(res, slack_bus_id_solver,
          <<At(res, slack_bus_id_solver)[1] - SumReal(res), At(res, slack_bus_id_solver)[2]>>)

fillSbus_out(s, slack_bus_id_solver) ==
    IF s.err # "" THEN s
    ELSE [Sbus |-> fillSbus_slack(s.Sbus, slack_bus_id_solver), err |-> ""]

\* GridModel::fillSbus_me: the collections add to res, then the slack entry is
\* corrected.
fillSbus_me(res, ac, id_me_to_solver, slack_bus_id_solver, el) ==
    fillSbus_out(fillSbus_families(CppFamilies, 1, el, ac, id_me_to_solver,
                                   [Sbus |-> res, err |-> ""]),
                 slack_bus_id_solver)

----
\* Voltages: a magnitude and an angle.
Volt(m, a) == [vm |-> m, va |-> a]
VZero == Volt(0, 0)

\* The Vinit a caller passes, of a given length: entry i has angle 10 + i.
VinitOf(len) == [i \in 1..len |-> Volt(1, 10 + (i - 1))]

\* What compute_pf was given.
NoPf == [Ybus |-> << >>, V |-> << >>, Sbus |-> << >>, pv |-> << >>, pq |-> << >>,
         called |-> FALSE]

\* The locals of dc_pf_old (GridModel.cpp:383-387).
NoTmp == [Ybus |-> << >>, Sbus |-> << >>, id_me_to_solver |-> << >>,
          id_solver_to_me |-> << >>, slack_bus_id_solver |-> -1,
          dcYbus |-> << >>, dcSbus |-> << >>, Va_dc |-> << >>]

\* A call under way: the instance, the exception thrown ("" while none is),
\* whether it has returned early, the steps run so far, the V on its way to
\* the solver, the vector to return, what compute_pf was given and the locals.
Running(grid) ==
    [g |-> grid, err |-> "", done |-> FALSE, trace |-> << >>, V |-> << >>, res |-> << >>,
     pf |-> NoPf, tmp |-> NoTmp, arg |-> << >>]

\* A call's record: its name, the exception it ended with ("" when none), the
\* steps it ran, what the solver said, the vector it returned, what compute_pf
\* was given, the locals of dc_pf_old and the arguments kept of the call.
CallRecord(name, c, cv) ==
    [op |-> name, err |-> c.err, trace |-> c.trace, conv |-> cv, ret |-> c.res,
     pf |-> c.pf, tmp |-> c.tmp, arg |-> c.arg]

NoCall == CallRecord("init", Running(<< >>), FALSE)

Stopped(c) == c.err # "" \/ c.done
Step(c, name) == [c EXCEPT !.trace = Append(@, name)]
Throw(c, e) == [c EXCEPT !.err = e]
\* The arguments of the call, kept for its record.
WithArg(c, a) == [c EXCEPT !.arg = a]

\* The size test of ac_pf, dc_pf and dc_pf_old (GridModel.cpp:165-169,
\* 378-382, 503-507); bus_vn_kv_ is as long as bus_status_.
check_Vinit_size(grid, Vinit) ==
    IF Len(Vinit) # Len(grid.bus_status_) THEN "InputSizeMismatch" ELSE ""

\* pre_process_solver, line 191.
pp_reset(c) == IF Stopped(c) THEN c ELSE Step([c EXCEPT !.g = reset(@)], "reset")

\* slack_bus_id_ = generators_.get_slack_bus_id(gen_slackbus_)
\* (GridModel.cpp:192, 390).
put_slack_bus_id(c, sb) ==
    IF sb.err # "" THEN Throw(c, sb.err) ELSE [c EXCEPT !.g.slack_bus_id_ = sb.val]

pp_slack(c) ==
    IF Stopped(c) THEN c
    ELSE put_slack_bus_id(c, get_slack_bus_id(c.g.el.generators_, c.g.gen_slackbus_))

\* init_Ybus on the members (GridModel.cpp:193): they are written even when
\* it throws.
put_init_Ybus(c, iy) ==
    [c EXCEPT !.g.Ybus_ = iy.Ybus, !.g.Sbus_ = iy.Sbus,
              !.g.id_me_to_solver_ = iy.id_me_to_solver,
              !.g.id_solver_to_me_ = iy.id_solver_to_me,
              !.g.slack_bus_id_solver_ = iy.slack_bus_id_solver,
              !.err = iy.err,
              !.trace = Append(@, "init_Ybus")]

pp_init_Ybus(c) ==
    IF Stopped(c) THEN c ELSE put_init_Ybus(c, init_Ybus(c.g.bus_status_, c.g.slack_bus_id_))

\* fillYbus on the members (GridModel.cpp:194).
put_fillYbus(c, fy) ==
    [c EXCEPT !.g.Ybus_ = fy.Ybus, !.err = fy.err, !.trace = Append(@, "fillYbus")]

pp_fillYbus(c, is_ac) ==
    IF Stopped(c) THEN c
    ELSE put_fillYbus(c, fillYbus(c.g.Ybus_, is_ac, c.g.id_me_to_solver_, c.g.el))

\* fillpv_pq (GridModel.cpp:195).
put_fillpv_pq(c, fp) ==
    [c EXCEPT !.g.bus_pv_ = fp.bus_pv, !.g.bus_pq_ = fp.bus_pq, !.err = fp.err,
              !.trace = Append(@, "fillpv_pq")]

pp_fillpv_pq(c) == IF Stopped(c) THEN c ELSE put_fillpv_pq(c, fillpv_pq(c.g))

\* fillSbus_me on the members (GridModel.cpp:198).
put_fillSbus_me(c, fs) ==
    [c EXCEPT !.g.Sbus_ = fs.Sbus, !.err = fs.err, !.trace = Append(@, "fillSbus_me")]

pp_fillSbus_me(c, is_ac) ==
    IF Stopped(c) THEN c
    ELSE put_fillSbus_me(c, fillSbus_me(c.g.Sbus_, is_ac, c.g.id_me_to_solver_,
                                        c.g.slack_bus_id_solver_, c.g.el))

\* DataGen::set_vm: the magnitude at the bus of every active generator becomes
\* the generator's setpoint.
gen_set_vm(e, bus_id_solver, V) ==
    IF e.status /\ bus_id_solver # deactivated_bus_id
    THEN SetAt(V, bus_id_solver, Volt(e.v, At(V, bus_id_solver).va))
    ELSE V

RECURSIVE generators_set_vm(_, _, _, _)
generators_set_vm(gens, gen_id, V, id_me_to_solver) ==
    IF gen_id >= Len(gens) THEN V
    ELSE generators_set_vm(gens, gen_id + 1,
                           gen_set_vm(At(gens, gen_id),
                                      At(id_me_to_solver, At(gens, gen_id).bus), V),
                           id_me_to_solver)

\* The V of the connected buses, taken from Vinit, then set_vm
\* (GridModel.cpp:200-209).
pp_V(c, Vinit) ==
    IF Stopped(c) THEN c
    ELSE [c EXCEPT !.V = generators_set_vm(c.g.el.generators_, 0,
                             [j \in 1..Len(c.g.id_solver_to_me_) |->
                                 At(Vinit, c.g.id_solver_to_me_[j])],
                             c.g.id_me_to_solver_)]

\* The part of pre_process_solver between the commented-out braces
\* (GridModel.cpp:191-196).
pre_process_assemble(c, is_ac) ==
    pp_fillpv_pq(pp_fillYbus(pp_init_Ybus(pp_slack(pp_reset(c))), is_ac))

\* pre_process_solver as it would be with the commented-out test in place:
\* the assembly is skipped when need_reset_ is false.
pre_process_solver_if_dirty(c, Vinit, is_ac) ==
    pp_V(pp_fillSbus_me(IF c.g.need_reset_ THEN pre_process_assemble(c, is_ac) ELSE c, is_ac),
         Vinit)

\* GridModel::pre_process_solver: it starts from scratch whatever need_reset_
\* says (the test on it is commented out, GridModel.cpp:190,197).
pre_process_solver(c, Vinit, is_ac) ==
    pp_V(pp_fillSbus_me(pre_process_assemble(c, is_ac), is_ac), Vinit)

\* ChooseSolver::compute_pf: whether the iteration converges is the solver's
\* affair; when it does the solver holds the solved V (here: every angle
\* moved by 100), else the iterate it stopped at.
compute_pf(s, Ybus, V, Sbus, pv, pq, conv) ==
    [s EXCEPT !.state = IF conv THEN "conv" ELSE "fail",
              !.V = IF conv THEN [j \in 1..Len(V) |-> Volt(V[j].vm, V[j].va + 100)] ELSE V]

\* conv = _solver.compute_pf(Ybus_, V, Sbus_, bus_pv_, bus_pq_, ...)
\* (GridModel.cpp:177, 518).
call_compute_pf(c, conv) ==
    IF Stopped(c) THEN c
    ELSE [c EXCEPT !.g.solver = compute_pf(@, c.g.Ybus_, c.V, c.g.Sbus_,
                                           c.g.bus_pv_, c.g.bus_pq_, conv),
                   !.pf = [Ybus |-> c.g.Ybus_, V |-> c.V, Sbus |-> c.g.Sbus_,
                           pv |-> c.g.bus_pv_, pq |-> c.g.bus_pq_, called |-> TRUE],
                   !.trace = Append(@, "compute_pf")]

\* GridModel::compute_results: the collections it projects results for
\* (GridModel.cpp:337-361).
compute_results(grid) ==
    [grid EXCEPT !.res = [f \in FamilySet |-> IF f \in CppFamilySet THEN "computed" ELSE @[f]]]

\* reset_results clearing nothing.
reset_results_none(grid) == grid

\* GridModel::reset_results: the collections it clears (GridModel.cpp:365-369).
reset_results(grid) ==
    [grid EXCEPT !.res = [f \in FamilySet |-> IF f \in CppFamilySet THEN "empty" ELSE @[f]]]

\* process_results with its two branches swapped.
process_results_branch_swapped(conv) == IF conv THEN "diverge" ELSE "store"

\* The branch process_results takes (GridModel.cpp:213).
process_results_branch(conv) == IF conv THEN "store" ELSE "diverge"

\* process_results when the solver converged, up to need_reset_ = false
\* (GridModel.cpp:214-218).
pr_store(c) ==
    IF c.g.compute_results_
    THEN Step([c EXCEPT !.g = [compute_results(@) EXCEPT !.need_reset_ = FALSE]],
              "compute_results")
    ELSE [c EXCEPT !.g.need_reset_ = FALSE]

\* Is some bus connected in bus_status_ and absent from id_me_to_solver_
\* (GridModel.cpp:224-229)?
bus_missing_in_solver(grid) ==
    \E b \in 0..(Len(grid.bus_status_) - 1) :
        At(grid.bus_status_, b) /\ At(grid.id_me_to_solver_, b) = deactivated_bus_id

\* process_results returning the solver's V as it is, one entry per connected
\* bus.
pr_expand_connected_only(c, Vinit) ==
    IF bus_missing_in_solver(c.g) THEN Throw(c, "BusConnectedInGridNotInSolver")
    ELSE [c EXCEPT !.res = c.g.solver.V]

\* The loop of process_results that expands the solver's V to all buses
\* (GridModel.cpp:219-231).
pr_expand(c, Vinit) ==
    IF bus_missing_in_solver(c.g) THEN Throw(c, "BusConnectedInGridNotInSolver")
    ELSE [c EXCEPT !.res = [i \in 1..Len(Vinit) |->
                               IF i <= Len(c.g.bus_status_) /\ c.g.bus_status_[i]
                               THEN At(c.g.solver.V, c.g.id_me_to_solver_[i])
                               ELSE VZero]]

\* process_results when the solver diverged (GridModel.cpp:232-236).
pr_diverge(c) ==
    Step([c EXCEPT !.g = [reset_results(@) EXCEPT !.need_reset_ = TRUE]], "reset_results")

\* GridModel::process_results.
process_results(c, conv, Vinit) ==
    IF Stopped(c) THEN c
    ELSE IF process_results_branch(conv) = "store" THEN pr_expand(pr_store(c), Vinit)
    ELSE pr_diverge(c)

\* GridModel::ac_pf.
ac_pf_call(grid, Vinit, conv) ==
    IF check_Vinit_size(grid, Vinit) # ""
    THEN Throw(Running(grid), check_Vinit_size(grid, Vinit))
    ELSE process_results(call_compute_pf(pre_process_solver(Running(grid), Vinit, TRUE), conv),
                         conv, Vinit)

\* The start of dc_pf once the size is tested (GridModel.cpp:508-509).
dc_pf_enter(grid) == [grid EXCEPT !.solver = solver_change(@, "DC")]

\* The end of dc_pf (GridModel.cpp:525): the solver type is put back; an
\* exception leaves before that.
dc_pf_leave(c, solver_type) ==
    IF c.err # "" THEN c ELSE [c EXCEPT !.g.solver = solver_change(@, solver_type)]

\* dc_pf with the solver switched to DC before the size of Vinit is tested.
dc_pf_call_check_late(grid, Vinit, conv) ==
    IF check_Vinit_size(grid, Vinit) # ""
    THEN Throw(Running(dc_pf_enter(grid)), check_Vinit_size(grid, Vinit))
    ELSE dc_pf_leave(
             process_results(
                 call_compute_pf(pre_process_solver(Running(dc_pf_enter(grid)), Vinit, FALSE),
                                 conv),
                 conv, Vinit),
             grid.solver.type)

\* GridModel::dc_pf.
dc_pf_call(grid, Vinit, conv) ==
    IF check_Vinit_size(grid, Vinit) # ""
    THEN Throw(Running(grid), check_Vinit_size(grid, Vinit))
    ELSE dc_pf_leave(
             process_results(
                 call_compute_pf(pre_process_solver(Running(dc_pf_enter(grid)), Vinit, FALSE),
                                 conv),
                 conv, Vinit),
             grid.solver.type)

----
\* The index shift of dc_pf_old once the slack row and column are removed
\* (GridModel.cpp:417,419,440,465).
dc_shift(k, slack_bus_id_solver) == IF k > slack_bus_id_solver THEN k - 1 ELSE k

\* The triplets of the reduced DC matrix with the row index left as it is.
dc_triplets_rows_kept(dcYbus_tmp, slack_bus_id_solver) ==
    { <<row, dc_shift(k, slack_bus_id_solver), dcYbus_tmp[row + 1][k + 1][1]>> :
          <<k, row>> \in { kr \in (0..(Len(dcYbus_tmp) - 1)) \X (0..(Len(dcYbus_tmp) - 1)) :
                              kr[1] # slack_bus_id_solver /\ kr[2] # slack_bus_id_solver } }

\* The triplets of the reduced DC matrix (GridModel.cpp:411-422): column k,
\* then the rows of that column.
dc_triplets(dcYbus_tmp, slack_bus_id_solver) ==
    { <<dc_shift(row, slack_bus_id_solver), dc_shift(k, slack_bus_id_solver),
        dcYbus_tmp[row + 1][k + 1][1]>> :
          <<k, row>> \in { kr \in (0..(Len(dcYbus_tmp) - 1)) \X (0..(Len(dcYbus_tmp) - 1)) :
                              kr[1] # slack_bus_id_solver /\ kr[2] # slack_bus_id_solver } }

\* The value setFromTriplets leaves at (row, col) of the reduced matrix: each
\* coordinate is met once.
dc_entry(trip, row, col) ==
    IF \E t \in trip : t[1] = row /\ t[2] = col
    THEN (CHOOSE t \in trip : t[1] = row /\ t[2] = col)[3]
    ELSE 0

\* The reduced matrix, (K-1) x (K-1), of real numbers
\* (GridModel.cpp:408,423).
dc_matrix(trip, n) == [r \in 1..n |-> [col \in 1..n |-> dc_entry(trip, r - 1, col - 1)]]

dc_reduced_Y(dcYbus_tmp, slack_bus_id_solver) ==
    dc_matrix(dc_triplets(dcYbus_tmp, slack_bus_id_solver), Len(dcYbus_tmp) - 1)

\* The reduced right-hand side (GridModel.cpp:436-442).
RECURSIVE dc_reduced_S(_, _, _, _)
dc_reduced_S(Sbus_tmp, k, slack_bus_id_solver, Sbus) ==
    IF k >= Len(Sbus_tmp) THEN Sbus
    ELSE IF k = slack_bus_id_solver THEN dc_reduced_S(Sbus_tmp, k + 1, slack_bus_id_solver, Sbus)
    ELSE dc_reduced_S(Sbus_tmp, k + 1, slack_bus_id_solver,
                      SetAt(Sbus, dc_shift(k, slack_bus_id_solver), At(Sbus_tmp, k)[1]))

\* Eigen's SparseLU solve of dcYbus . theta = Sbus: the angle of reduced bus k
\* (here: 50 + k).
dc_solve(dcYbus, Sbus) == [k \in 1..Len(Sbus) |-> 50 + (k - 1)]

\* The test of the angle loop of dc_pf_old (GridModel.cpp:457-464).
dc_bus_missing(grid, id_me_to_solver) ==
    \E b \in 0..(Len(grid.bus_status_) - 1) :
        /\ b # grid.slack_bus_id_
        /\ At(grid.bus_status_, b)
        /\ At(id_me_to_solver, b) = deactivated_bus_id

\* The angles of all buses without the slack's initial angle added.
dc_Va_no_offset(grid, Va_dc, id_me_to_solver, slack_bus_id_solver, Vinit) ==
    [i \in 1..Len(grid.bus_status_) |->
        IF (i - 1) # grid.slack_bus_id_ /\ grid.bus_status_[i]
        THEN At(Va_dc, dc_shift(id_me_to_solver[i], slack_bus_id_solver))
        ELSE 0]

\* The angles of all buses (GridModel.cpp:454-468): the solved angle of every
\* connected bus but the slack, then the slack's initial angle added to all.
dc_Va(grid, Va_dc, id_me_to_solver, slack_bus_id_solver, Vinit) ==
    [i \in 1..Len(grid.bus_status_) |->
        (IF (i - 1) # grid.slack_bus_id_ /\ grid.bus_status_[i]
         THEN At(Va_dc, dc_shift(id_me_to_solver[i], slack_bus_id_solver))
         ELSE 0) + At(Vinit, grid.slack_bus_id_).va]

\* DataGen::get_vm_for_dc for one generator.
gen_get_vm_for_dc(e, Vm) == IF e.status THEN SetAt(Vm, e.bus, e.v) ELSE Vm

\* DataGen::get_vm_for_dc: the magnitude at the bus of every active generator
\* becomes the generator's setpoint.
RECURSIVE generators_get_vm_for_dc(_, _, _)
generators_get_vm_for_dc(gens, gen_id, Vm) ==
    IF gen_id >= Len(gens) THEN Vm
    ELSE generators_get_vm_for_dc(gens, gen_id + 1, gen_get_vm_for_dc(At(gens, gen_id), Vm))

\* The magnitudes of all buses (GridModel.cpp:485-490).
dc_Vm(grid, size) ==
    generators_get_vm_for_dc(grid.el.generators_, 0,
        [i \in 1..size |-> IF i <= Len(grid.bus_status_) /\ ~grid.bus_status_[i] THEN 0 ELSE 1])

\* Vm . e^{j Va}: a magnitude of 0 is the number 0 whatever the angle.
Polar(Vm, Va) == [i \in 1..Len(Vm) |-> IF Vm[i] = 0 THEN VZero ELSE Volt(Vm[i], Va[i])]

\* init_Ybus on the locals of dc_pf_old (GridModel.cpp:391).
put_tmp_init_Ybus(c, iy) ==
    [c EXCEPT !.tmp.Ybus = iy.Ybus, !.tmp.Sbus = iy.Sbus,
              !.tmp.id_me_to_solver = iy.id_me_to_solver,
              !.tmp.id_solver_to_me = iy.id_solver_to_me,
              !.tmp.slack_bus_id_solver = iy.slack_bus_id_solver,
              !.err = iy.err,
              !.trace = Append(@, "init_Ybus")]

old_init_Ybus(c) ==
    IF Stopped(c) THEN c
    ELSE put_tmp_init_Ybus(c, init_Ybus(c.g.bus_status_, c.g.slack_bus_id_))

\* fillYbus on the locals (GridModel.cpp:392).
put_tmp_fillYbus(c, fy) ==
    [c EXCEPT !.tmp.Ybus = fy.Ybus, !.err = fy.err, !.trace = Append(@, "fillYbus")]

old_fillYbus(c) ==
    IF Stopped(c) THEN c
    ELSE put_tmp_fillYbus(c, fillYbus(c.tmp.Ybus, FALSE, c.tmp.id_me_to_solver, c.g.el))

\* fillSbus_me on the locals (GridModel.cpp:395).
put_tmp_fillSbus_me(c, fs) ==
    [c EXCEPT !.tmp.Sbus = fs.Sbus, !.err = fs.err, !.trace = Append(@, "fillSbus_me")]

old_fillSbus_me(c) ==
    IF Stopped(c) THEN c
    ELSE put_tmp_fillSbus_me(c, fillSbus_me(c.tmp.Sbus, FALSE, c.tmp.id_me_to_solver,
                                            c.tmp.slack_bus_id_solver, c.g.el))

\* The reduced matrix and its factorization (GridModel.cpp:407-433); ok:
\* whether Eigen factorizes it.  When it does not, the call returns an empty
\* vector.
old_factorize(c, ok) ==
    IF Stopped(c) THEN c
    ELSE [c EXCEPT !.tmp.dcYbus = dc_reduced_Y(c.tmp.Ybus, c.tmp.slack_bus_id_solver),
                   !.done = ~ok,
                   !.trace = Append(@, "factorize")]

\* The reduced right-hand side and the solve (GridModel.cpp:436-449).
put_tmp_solve(c, Sbus) ==
    [c EXCEPT !.tmp.dcSbus = Sbus, !.tmp.Va_dc = dc_solve(c.tmp.dcYbus, Sbus),
              !.trace = Append(@, "solve")]

old_solve(c) ==
    IF Stopped(c) THEN c
    ELSE put_tmp_solve(c, dc_reduced_S(c.tmp.Sbus, 0, c.tmp.slack_bus_id_solver,
                                       Constant(Len(c.tmp.id_solver_to_me) - 1, 0)))

\* The vector dc_pf_old returns (GridModel.cpp:452-495).
old_result(c, Vinit) ==
    IF Stopped(c) THEN c
    ELSE IF dc_bus_missing(c.g, c.tmp.id_me_to_solver)
        THEN Throw(c, "BusConnectedAndDisconnected")
    ELSE [c EXCEPT !.res = Polar(dc_Vm(c.g, Len(Vinit)),
                                 dc_Va(c.g, c.tmp.Va_dc, c.tmp.id_me_to_solver,
                                       c.tmp.slack_bus_id_solver, Vinit))]

\* GridModel::dc_pf_old: it assembles into locals and solves the reduced
\* system itself; of the members it writes slack_bus_id_ only.
dc_pf_old_call(grid, Vinit, ok) ==
    IF check_Vinit_size(grid, Vinit) # ""
    THEN Throw(Running(grid), check_Vinit_size(grid, Vinit))
    ELSE old_result(
             old_solve(
                 old_factorize(
                     old_fillSbus_me(old_fillYbus(old_init_Ybus(pp_slack(Running(grid))))),
                     ok)),
             Vinit)

\* GridModel::nb_bus: the number of connected buses.
nb_bus(grid) ==
    Cardinality({b \in 0..(Len(grid.bus_status_) - 1) : At(grid.bus_status_, b)})

\* The range test of add_gen_slackbus (GridModel.cpp:545-546).
add_gen_slackbus_err(gen_id, nb) ==
    IF gen_id < 0 THEN "SlackIdNegative"
    ELSE IF gen_id > nb THEN "SlackIdTooHigh"
    ELSE ""

\* GridModel::add_gen_slackbus (GridModel.cpp:544-548).
add_gen_slackbus_call(grid, gen_id) ==
    IF add_gen_slackbus_err(gen_id, Len(grid.el.generators_)) # ""
    THEN Throw(Running(grid), add_gen_slackbus_err(gen_id, Len(grid.el.generators_)))
    ELSE Running([grid EXCEPT !.gen_slackbus_ = gen_id])

\* GridModel::get_state (GridModel.cpp:63-82): the components it packs
\* (bus_vn_kv_ is not modelled).
get_state(grid) ==
    [bus_status |-> grid.bus_status_,
     powerlines_ |-> grid.el.powerlines_,
     shunts_ |-> grid.el.shunts_,
     trafos_ |-> grid.el.trafos_,
     generators_ |-> grid.el.generators_,
     loads_ |-> grid.el.loads_,
     gen_slackbus |-> grid.gen_slackbus_]

\* set_state reading the generators' state where the loads' is and the loads'
\* where the generators' is (std::get<5> and std::get<6> exchanged).
set_state_swapped(grid, my_state) ==
    [reset(grid) EXCEPT !.need_reset_ = TRUE,
                        !.compute_results_ = TRUE,
                        !.bus_status_ = my_state.bus_status,
                        !.el = [f \in FamilySet |->
                                   IF f = "generators_" THEN my_state.loads_
                                   ELSE IF f = "loads_" THEN my_state.generators_
                                   ELSE IF f \in CppFamilySet THEN my_state[f] ELSE @[f]],
                        !.gen_slackbus_ = my_state.gen_slackbus]

\* GridModel::set_state (GridModel.cpp:84-131).
set_state(grid, my_state) ==
    [reset(grid) EXCEPT !.need_reset_ = TRUE,
                        !.compute_results_ = TRUE,
                        !.bus_status_ = my_state.bus_status,
                        !.el = [f \in FamilySet |->
                                   IF f \in CppFamilySet THEN my_state[f] ELSE @[f]],
                        !.gen_slackbus_ = my_state.gen_slackbus]

----
\* The grid2op tables (set_n_sub, set_*_pos_topo_vect, set_*_to_subid,
\* GridModel.h:317-384), as set once the grid is built: substation s has the
\* buses s and s + n_sub_; the position of every element end in the topology
\* vector and the substation of every element end.
n_sub_ == 1
load_pos_topo_vect_ == <<0>>
load_to_subid_ == <<0>>
gen_pos_topo_vect_ == <<1, 2>>
gen_to_subid_ == <<0, 1>>
line_or_pos_topo_vect_ == <<3>>
line_or_to_subid_ == <<0>>
line_ex_pos_topo_vect_ == <<4>>
line_ex_to_subid_ == <<1>>
trafo_hv_pos_topo_vect_ == <<5>>
trafo_hv_to_subid_ == <<0>>
trafo_lv_pos_topo_vect_ == <<6>>
trafo_lv_to_subid_ == <<1>>
storage_pos_topo_vect_ == <<7>>
storage_to_subid_ == <<1>>

\* One call of update_topo_generic: the collection, the end whose bus it
\* changes and the two tables.
TopoPass(f, side, vect_pos, vect_subid) ==
    [f |-> f, side |-> side, vect_pos |-> vect_pos, vect_subid |-> vect_subid]

\* The calls update_topo makes, in its order (GridModel.cpp:592-629).
update_topo_passes ==
    << TopoPass("loads_", 1, load_pos_topo_vect_, load_to_subid_),
       TopoPass("generators_", 1, gen_pos_topo_vect_, gen_to_subid_),
       TopoPass("powerlines_", 1, line_or_pos_topo_vect_, line_or_to_subid_),
       TopoPass("powerlines_", 2, line_ex_pos_topo_vect_, line_ex_to_subid_),
       TopoPass("trafos_", 1, trafo_hv_pos_topo_vect_, trafo_hv_to_subid_),
       TopoPass("trafos_", 2, trafo_lv_pos_topo_vect_, trafo_lv_to_subid_) >>

\* The bus update_topo_generic asks for (GridModel.h:445-446).
new_bus_backend(new_bus, init_bus_me) ==
    IF new_bus = 1 THEN init_bus_me ELSE init_bus_me + n_sub_

\* The body of update_topo_generic for an element whose position is flagged
\* (GridModel.h:442-452).
update_topo_el(grid, f, side, el_id, new_bus, init_bus_me) ==
    IF new_bus > 0
    THEN change_el_bus(change_el_status(grid, f, el_id, TRUE), f, el_id, side,
                       new_bus_backend(new_bus, init_bus_me))
    ELSE change_el_status(grid, f, el_id, FALSE)

\* GridModel::update_topo_generic, from element el_id on.
RECURSIVE update_topo_generic(_, _, _, _, _)
update_topo_generic(grid, has_changed, new_values, pass, el_id) ==
    IF el_id >= Len(pass.vect_pos) THEN grid
    ELSE IF At(has_changed, At(pass.vect_pos, el_id))
        THEN update_topo_generic(
                 update_topo_el(grid, pass.f, pass.side, el_id,
                                At(new_values, At(pass.vect_pos, el_id)),
                                At(pass.vect_subid, el_id)),
                 has_changed, new_values, pass, el_id + 1)
    ELSE update_topo_generic(grid, has_changed, new_values, pass, el_id + 1)

\* The calls of update_topo from the k-th on.
RECURSIVE update_topo_from(_, _, _, _, _)
update_topo_from(grid, has_changed, new_values, passes, k) ==
    IF k > Len(passes) THEN grid
    ELSE update_topo_from(update_topo_generic(grid, has_changed, new_values, passes[k], 0),
                          has_changed, new_values, passes, k + 1)

\* GridModel::update_topo.
update_topo(grid, has_changed, new_values) ==
    update_topo_from(grid, has_changed, new_values, update_topo_passes, 1)

\* A row of update_bus_status whose second column addresses bus_id again.
update_bus_status_row_no_offset(grid, nb_bus_before, bus_id, row) ==
    change_bus_status(change_bus_status(grid, bus_id, row[1]), bus_id, row[2])

\* One row of update_bus_status (GridModel.cpp:555-565).
update_bus_status_row(grid, nb_bus_before, bus_id, row) ==
    change_bus_status(change_bus_status(grid, bus_id, row[1]),
                      bus_id + nb_bus_before, row[2])

\* GridModel::update_bus_status, from row bus_id on.
RECURSIVE update_bus_status(_, _, _, _)
update_bus_status(grid, nb_bus_before, active_bus, bus_id) ==
    IF bus_id >= Len(active_bus) THEN grid
    ELSE update_bus_status(update_bus_status_row(grid, nb_bus_before, bus_id,
                                                 At(active_bus, bus_id)),
                           nb_bus_before, active_bus, bus_id + 1)

\* GridModel::update_continuous_values with fun = change_<field>_<f>, from
\* element el_id on.
RECURSIVE update_continuous_values(_, _, _, _, _, _)
update_continuous_values(grid, has_changed, new_values, f, field, el_id) ==
    IF el_id >= Len(has_changed) THEN grid
    ELSE IF At(has_changed, el_id)
        THEN update_continuous_values(
                 change_el_value(grid, f, el_id, field, At(new_values, el_id)),
                 has_changed, new_values, f, field, el_id + 1)
    ELSE update_continuous_values(grid, has_changed, new_values, f, field, el_id + 1)

\* The collection and the setpoint each masked update targets
\* (GridModel.cpp:569-588; update_storages_p, GridModel.h:315, has no body in
\* GridModel.cpp and is taken to call change_p_storage the same way).
update_target(name) ==
    CASE name = "update_gens_p" -> [f |-> "generators_", field |-> "p"]
      [] name = "update_gens_v" -> [f |-> "generators_", field |-> "v"]
      [] name = "update_loads_p" -> [f |-> "loads_", field |-> "p"]
      [] name = "update_loads_q" -> [f |-> "loads_", field |-> "q"]
      [] name = "update_storages_p" -> [f |-> "storages_", field |-> "p"]

\* The masked updates with has_changed not read: every element is written.
update_values_unmasked(grid, name, has_changed, new_values) ==
    update_continuous_values(grid, Constant(Len(has_changed), TRUE), new_values,
                             update_target(name).f, update_target(name).field, 0)

\* update_gens_p, update_gens_v, update_loads_p, update_loads_q,
\* update_storages_p.
update_values(grid, name, has_changed, new_values) ==
    update_continuous_values(grid, has_changed, new_values,
                             update_target(name).f, update_target(name).field, 0)

----
Init ==
    /\ g = InitGrid(-1)
    /\ last = NoCall
    /\ steps = 0

\* A public call: the instance it leaves and its record.
Invoke(name, c, conv) ==
    /\ steps < MaxSteps
    /\ g' = c.g
    /\ last' = CallRecord(name, c, conv)
    /\ steps' = steps + 1

\* A call that cannot throw.
Mutate(name, grid) == Invoke(name, Running(grid), FALSE)

\* The ids of the elements of a family.
Ids(f) == 0..(Len(g.el[f]) - 1)
\* The lengths of Vinit tried: the right one, one less, one more.
VinitLens == {NBus - 1, NBus, NBus + 1}

deactivate_bus ==
    \E b \in BusIds :
        Invoke("deactivate_bus",
               WithArg(Running(change_bus_status(g, b, FALSE)), <<b, At(g.bus_status_, b)>>),
               FALSE)
reactivate_bus ==
    \E b \in BusIds :
        Invoke("reactivate_bus",
               WithArg(Running(change_bus_status(g, b, TRUE)), <<b, At(g.bus_status_, b)>>),
               FALSE)

deactivate_element ==
    \E f \in FamilySet : \E id \in Ids(f) :
        Invoke("deactivate",
               WithArg(Running(change_el_status(g, f, id, FALSE)),
                       <<f, id, At(g.el[f], id).status>>),
               FALSE)

reactivate_element ==
    \E f \in FamilySet : \E id \in Ids(f) :
        Invoke("reactivate",
               WithArg(Running(change_el_status(g, f, id, TRUE)),
                       <<f, id, At(g.el[f], id).status>>),
               FALSE)

change_bus_element ==
    \E f \in FamilySet : \E id \in Ids(f) : \E b \in BusIds :
        \E side \in (IF f \in {"powerlines_", "trafos_"} THEN {1, 2} ELSE {1}) :
            Mutate("change_bus", change_el_bus(g, f, id, side, b))

change_value_element ==
    \E f \in {"loads_", "generators_", "shunts_", "sgens_", "storages_"} :
        \E id \in Ids(f) : \E x \in PValues :
            \E field \in (CASE f = "generators_" -> {"p", "v"}
                             [] f = "loads_" -> {"p", "q"}
                             [] OTHER -> {"p"}) :
                Mutate("change_value", change_el_value(g, f, id, field, x))

change_solver ==
    \E type \in SolverTypes : Mutate("change_solver", change_solver_grid(g, type))

set_result_computation ==
    \E val \in BOOLEAN :
        Mutate("result_computation", [g EXCEPT !.compute_results_ = val])

add_gen_slackbus ==
    \E gen_id \in (-1)..(Len(g.el.generators_) + 1) :
        Invoke("add_gen_slackbus", WithArg(add_gen_slackbus_call(g, gen_id), <<gen_id>>), FALSE)

set_state_call ==
    \E my_state \in {get_state(g), get_state(InitGrid(-1))} :
        Invoke("set_state", WithArg(Running(set_state(g, my_state)), <<my_state>>), FALSE)

\* GridModel::copy (GridModel.h:70-73): the grid is left as it is, the copy is
\* kept in the record of the call.
copy ==
    Invoke("copy", WithArg(Running(g), <<GridModel_copy(g)>>), FALSE)

ac_pf ==
    \E len \in VinitLens : \E conv \in BOOLEAN :
        Invoke("ac_pf", ac_pf_call(g, VinitOf(len), conv), conv)

dc_pf ==
    \E len \in VinitLens : \E conv \in BOOLEAN :
        Invoke("dc_pf", dc_pf_call(g, VinitOf(len), conv), conv)

dc_pf_old ==
    \E len \in VinitLens : \E ok \in BOOLEAN :
        Invoke("dc_pf_old", dc_pf_old_call(g, VinitOf(len), ok), ok)

\* The masked updates.
UpdateNames ==
    {"update_gens_p", "update_gens_v", "update_loads_p", "update_loads_q",
     "update_storages_p"}
\* The masks of n entries and the new values tried with them: 7, 8, ...
Masks(n) == [1..n -> BOOLEAN]
NewValues(n) == [i \in 1..n |-> 6 + i]

update_values_call ==
    \E name \in UpdateNames :
        \E has_changed \in Masks(Len(g.el[update_target(name).f])) :
            Invoke(name,
                   WithArg(Running(update_values(g, name, has_changed,
                                                 NewValues(Len(has_changed)))),
                           <<has_changed, NewValues(Len(has_changed))>>),
                   FALSE)

\* The length of the topology vector, the sets of flagged positions and the
\* new values tried in update_topo: every end disconnected, on the first
\* busbar, on the second, and a mix where the two ends of a line or of a
\* transformer are both connected (update_topo supposes that a disconnected
\* line has both its ends disconnected, GridModel.cpp:605).
TopoLen == Len(load_pos_topo_vect_) + Len(gen_pos_topo_vect_) + Len(line_or_pos_topo_vect_)
             + Len(line_ex_pos_topo_vect_) + Len(trafo_hv_pos_topo_vect_)
             + Len(trafo_lv_pos_topo_vect_) + Len(storage_pos_topo_vect_)
TopoFlagged == { {}, {0}, {1, 2}, {3}, {3, 4}, {5, 6}, {6}, {7} }
TopoValues ==
    { [i \in 1..TopoLen |-> -1], [i \in 1..TopoLen |-> 1], [i \in 1..TopoLen |-> 2],
      <<2, 1, 0, 1, 2, 2, 1, 2>>, <<1, 1, 1, -1, 1, 0, 2, 1>> }

update_topo_call ==
    \E flagged \in TopoFlagged : \E new_values \in TopoValues :
        Invoke("update_topo",
               WithArg(Running(update_topo(g, [i \in 1..TopoLen |-> (i - 1) \in flagged],
                                           new_values)),
                       <<[i \in 1..TopoLen |-> (i - 1) \in flagged], new_values>>),
               FALSE)

\* update_bus_status with one row, for a grid of one or two original buses.
update_bus_status_call ==
    \E nb_bus_before \in {1, 2} : \E row \in BOOLEAN \X BOOLEAN :
        Invoke("update_bus_status",
               WithArg(Running(update_bus_status(g, nb_bus_before, <<row>>, 0)),
                       <<nb_bus_before, <<row>> >>),
               FALSE)

Next ==
    \/ deactivate_bus
    \/ reactivate_bus
    \/ deactivate_element
    \/ reactivate_element
    \/ change_bus_element
    \/ change_value_element
    \/ change_solver
    \/ set_result_computation
    \/ add_gen_slackbus
    \/ set_state_call
    \/ ac_pf
    \/ dc_pf
    \/ dc_pf_old
    \/ update_values_call
    \/ update_topo_call
    \/ update_bus_status_call
    \/ copy

Spec == Init /\ [][Next]_vars

----
\* The calls that solve through the solver, all the calls that solve, and
\* the calls that mutate the grid.
SolveOps == {"ac_pf", "dc_pf"}
AllSolveOps == {"ac_pf", "dc_pf", "dc_pf_old"}
MutationOps ==
    {"deactivate_bus", "reactivate_bus", "deactivate", "reactivate", "change_bus",
     "change_value", "change_solver", "add_gen_slackbus", "set_state"}

\* The grid2op updates, which call the mutators above.
UpdateOps ==
    {"update_gens_p", "update_gens_v", "update_loads_p", "update_loads_q",
     "update_storages_p", "update_topo", "update_bus_status"}

\* Did the last call run the step named?
Ran(name) == \E i \in 1..Len(last.trace) : last.trace[i] = name
Ran_next(name) == \E i \in 1..Len(last'.trace) : last'.trace[i] = name

\* The entries of a vector.
Range(v) == {v[i] : i \in 1..Len(v)}
NoRepeat(v) == \A a, b \in 1..Len(v) : a # b => v[a] # v[b]

\* The last call was an ac_pf or dc_pf whose init_Ybus returned (fillYbus is
\* the step after it).
Mapped == last.op \in SolveOps /\ Ran("fillYbus")
\* The same for dc_pf_old, whose maps are locals.
MappedOld == last.op = "dc_pf_old" /\ Ran("fillYbus")
\* The last call was an ac_pf or dc_pf whose fillpv_pq returned (fillSbus_me
\* is the step after it).
Classified == last.op \in SolveOps /\ Ran("fillSbus_me")

\* The two maps are inverses of each other on the connected buses and the
\* disconnected buses map to -1.
MapsInverse(bus_status, ext_to_solver, solver_to_ext) ==
    /\ Len(ext_to_solver) = Len(bus_status)
    /\ \A i \in 0..(Len(bus_status) - 1) :
          IF At(bus_status, i)
          THEN /\ At(ext_to_solver, i) \in 0..(Len(solver_to_ext) - 1)
               /\ At(solver_to_ext, At(ext_to_solver, i)) = i
          ELSE At(ext_to_solver, i) = -1
    /\ \A j \in 0..(Len(solver_to_ext) - 1) :
          /\ At(solver_to_ext, j) \in 0..(Len(bus_status) - 1)
          /\ At(ext_to_solver, At(solver_to_ext, j)) = j

\* C1: after every successful init_Ybus (in pre_process_solver or in
\* dc_pf_old) every connected bus i has ext_to_solver[i] in 0..K-1 with
\* solver_to_ext[ext_to_solver[i]] = i, every solver index j has
\* ext_to_solver[solver_to_ext[j]] = j, every disconnected bus maps to -1; and
\* process_results never raises "One bus is connected in GridModel and
\* disconnected in Solver".
C1_MapsMutualInverses ==
    /\ Mapped => MapsInverse(g.bus_status_, g.id_me_to_solver_, g.id_solver_to_me_)
    /\ MappedOld => MapsInverse(g.bus_status_, last.tmp.id_me_to_solver,
                                last.tmp.id_solver_to_me)
    /\ last.err # "BusConnectedInGridNotInSolver"

\* C1 happens: a solve assembled and converged with a bus disconnected and
\* two buses left.
C1_Witness ==
    /\ last.op = "ac_pf" /\ last.conv /\ last.err = "" /\ Ran("compute_results")
    /\ \E b \in BusIds : ~At(g.bus_status_, b)
    /\ Len(g.id_solver_to_me_) = NBus - 1
    /\ Len(last.ret) = NBus

\* C2: after fillpv_pq in a successful assembly with K solver buses, the
\* slack solver index, the entries of pv and the entries of pq hold no index
\* twice (within or across them) and together are exactly 0..K-1.
C2_SlackPvPqPartition ==
    Classified =>
        /\ NoRepeat(<<g.slack_bus_id_solver_>> \o g.bus_pv_ \o g.bus_pq_)
        /\ Range(<<g.slack_bus_id_solver_>> \o g.bus_pv_ \o g.bus_pq_)
               = 0..(Len(g.id_solver_to_me_) - 1)

\* C2 happens: a classification with a PV bus and a PQ bus beside the slack.
C2_Witness ==
    /\ Classified /\ last.err = ""
    /\ Len(g.bus_pv_) >= 1 /\ Len(g.bus_pq_) >= 1

\* An active generator is connected to solver bus j.
HostsActiveGen(j) ==
    \E k \in 1..Len(g.el.generators_) :
        /\ g.el.generators_[k].status
        /\ At(g.id_me_to_solver_, g.el.generators_[k].bus) = j

\* C3: after classification a solver bus is in pv iff it is not the slack bus
\* and hosts at least one active generator; it is in pq iff it is neither the
\* slack bus nor in pv.
C3_PvIffActiveGen ==
    Classified =>
        \A j \in 0..(Len(g.id_solver_to_me_) - 1) :
            /\ j \in Range(g.bus_pv_) <=> (j # g.slack_bus_id_solver_ /\ HostsActiveGen(j))
            /\ j \in Range(g.bus_pq_) <=>
                   (j # g.slack_bus_id_solver_ /\ j \notin Range(g.bus_pv_))

\* C3 happens: a classification where a bus whose only generator is
\* deactivated is PQ, and one where two active generators share a PV bus.
C3_Witness ==
    /\ Classified /\ last.err = ""
    /\ \/ \E k \in 1..Len(g.el.generators_) :
             /\ ~g.el.generators_[k].status
             /\ At(g.id_me_to_solver_, g.el.generators_[k].bus) \in Range(g.bus_pq_)
       \/ \E k, l \in 1..Len(g.el.generators_) :
             /\ k # l
             /\ g.el.generators_[k].status /\ g.el.generators_[l].status
             /\ g.el.generators_[k].bus = g.el.generators_[l].bus
             /\ At(g.id_me_to_solver_, g.el.generators_[k].bus) \in Range(g.bus_pv_)

\* The designated slack generator exists and its bus is deactivated.
SlackBusDeactivated ==
    /\ g.gen_slackbus_ \in 0..(Len(g.el.generators_) - 1)
    /\ ~At(g.bus_status_, At(g.el.generators_, g.gen_slackbus_).bus)
\* The designated slack generator is active.
SlackGenActive == At(g.el.generators_, g.gen_slackbus_).status

\* The next call is a solve with a Vinit of the right size.
SizedSolve_next == last'.op \in AllSolveOps /\ last'.err # "InputSizeMismatch"
NotStarted_next == ~Ran_next("compute_pf") /\ ~Ran_next("factorize")

\* C4, as stated: if the bus of the designated slack generator is deactivated
\* when ac_pf, dc_pf or dc_pf_old is called with a correctly sized Vinit, the
\* call fails with the slack-disconnected error and neither compute_pf nor
\* the DC factorization is started in it.
C4_SlackDisconnectedAsStated ==
    [][(SizedSolve_next /\ SlackBusDeactivated)
           => (last'.err = "SlackDisconnected" /\ NotStarted_next)]_vars

\* C4, amended: if the bus of the designated slack generator is deactivated
\* when ac_pf, dc_pf or dc_pf_old is called with a correctly sized Vinit,
\* neither compute_pf nor the DC factorization is started in the call; the
\* call fails with the slack-disconnected error when the slack generator is
\* active and with the slack-invalid error when it is not.
C4_SlackDisconnected ==
    [][(SizedSolve_next /\ SlackBusDeactivated)
           => /\ NotStarted_next
              /\ last'.err = IF SlackGenActive THEN "SlackDisconnected" ELSE "SlackInvalid"]_vars

\* C4 happens: a dc_pf_old on a grid whose active slack generator sits on a
\* deactivated bus has failed with the slack-disconnected error.
C4_Witness ==
    /\ last.op = "dc_pf_old" /\ last.err = "SlackDisconnected"
    /\ SlackBusDeactivated /\ SlackGenActive

\* The errors the assembly raises.
AssemblyErrors == {"SlackDisconnected", "SlackInvalid", "DisconnectedBusReferenced"}

\* What C5 lists as the grid's state.
AssembledState(grid) ==
    <<grid.Ybus_, grid.Sbus_, grid.bus_pv_, grid.bus_pq_, grid.id_me_to_solver_,
      grid.id_solver_to_me_, grid.slack_bus_id_solver_, grid.need_reset_, grid.solver>>

\* C5: when ac_pf or dc_pf raises an assembly error, the assembled Ybus and
\* Sbus, the pv and pq vectors, the index maps, slack_bus_id_solver, the dirty
\* flag, the solver's state and the selected solver type are after the call
\* what they were before it.
C5_AssemblyErrorRestores ==
    [][(last'.op \in SolveOps /\ last'.err \in AssemblyErrors)
           => AssembledState(g') = AssembledState(g)]_vars

\* C6: when ac_pf, dc_pf or dc_pf_old is called with a Vinit whose length is
\* not the number of buses, the error is raised with nothing modified: bus
\* status, element collections, assembled matrices, index maps, dirty flag
\* and solver type are unchanged, and no step of the call has run.
C6_SizeMismatchLeavesState ==
    [][(last'.op \in AllSolveOps /\ last'.err = "InputSizeMismatch")
           => (g' = g /\ last'.trace = << >>)]_vars

\* C6 happens: a dc_pf with a wrongly sized Vinit has failed on a grid that an
\* earlier solve assembled and whose solver is not the DC one.
C6_Witness ==
    /\ last.op = "dc_pf" /\ last.err = "InputSizeMismatch"
    /\ g.Ybus_ # << >> /\ g.solver.type # "DC"

\* The last call was an ac_pf or dc_pf in which the solver did not converge.
Diverged == last.op \in SolveOps /\ last.pf.called /\ ~last.conv

\* C7: when the solver reports non-convergence in ac_pf or dc_pf the call
\* does not raise, it returns a vector of length 0, reset_results has run and
\* the stored results of every element family are cleared, and need_reset_
\* is true.
C7_DivergenceIsNotFatal ==
    Diverged =>
        /\ last.err = ""
        /\ Len(last.ret) = 0
        /\ Ran("reset_results")
        /\ \A f \in FamilySet : g.res[f] = "empty"
        /\ g.need_reset_

\* C7 happens: a dc_pf in which the solver did not converge has returned.
C7_Witness ==
    /\ Diverged /\ last.op = "dc_pf" /\ steps >= 2
    /\ g.solver.state = "fail"

\* The steps of a solve call, in order, up to compute_pf.
SolveSteps == <<"reset", "init_Ybus", "fillYbus", "fillpv_pq", "fillSbus_me", "compute_pf">>

IsPrefix(s, t) == Len(s) <= Len(t) /\ \A i \in 1..Len(s) : s[i] = t[i]

\* The order of the steps of the last ac_pf or dc_pf.
SolveOrder ==
    last.op \in SolveOps =>
        /\ \/ IsPrefix(last.trace, SolveSteps)
           \/ last.trace = Append(SolveSteps, "compute_results")
           \/ last.trace = Append(SolveSteps, "reset_results")
        /\ last.pf.called <=> Ran("compute_pf")
        /\ Ran("compute_results") => last.conv
        /\ Ran("reset_results") => ~last.conv
        /\ (last.pf.called /\ last.conv) => ~g.need_reset_

\* C8: every ac_pf and dc_pf runs reset, the assembly (maps, Y, pv/pq, S),
\* compute_pf and process_results in that order, so compute_pf runs only after
\* the whole assembly of the same call; compute_results runs only after a
\* converged compute_pf and reset_results only after a diverged one; after a
\* converged solve need_reset_ is false, and it becomes true again only by a
\* mutation or by the reset of a solve.
C8_SolveStepOrder ==
    /\ []SolveOrder
    /\ [][(~g.need_reset_ /\ g'.need_reset_)
              => \/ last'.op \in MutationOps \cup UpdateOps
                 \/ last'.op \in SolveOps /\ Ran_next("reset")]_vars

\* C8 happens: a converged solve ran all its steps and left the flag false.
C8_Witness ==
    /\ last.op = "ac_pf" /\ last.conv
    /\ last.trace = Append(SolveSteps, "compute_results")
    /\ ~g.need_reset_

\* C9: after any mutation (a bus or an element activated or deactivated, an
\* endpoint bus changed, a setpoint changed, the solver changed, the slack
\* designation changed by add_gen_slackbus, set_state) need_reset_ is true, and
\* it stays true until a solve converges.
C9_MutationSetsDirty ==
    [][/\ (last'.op \in MutationOps /\ last'.err = ""
              /\ (last'.op = "add_gen_slackbus" => g'.gen_slackbus_ # g.gen_slackbus_))
          => g'.need_reset_
       /\ (g.need_reset_ /\ ~g'.need_reset_)
          => (last'.op \in SolveOps /\ last'.conv)]_vars

\* The grid as it is after construction, with the bus status, the elements
\* and the slack designation of the current one: a grid with the same element
\* state and no history.
SameStateNoHistory ==
    [InitGrid(-1) EXCEPT !.bus_status_ = g.bus_status_, !.el = g.el,
                         !.gen_slackbus_ = g.gen_slackbus_]

\* What the solve of the last call assembles on a grid.
AssembledBy(grid) == pre_process_solver(Running(grid), VinitOf(NBus), last.op = "ac_pf").g

\* What C10 lists as the assembly.
Assembly(grid) ==
    <<grid.Ybus_, grid.Sbus_, grid.bus_pv_, grid.bus_pq_, grid.id_me_to_solver_,
      grid.id_solver_to_me_>>

\* C10: the Y, S, pv, pq and index maps a solve assembles are those the same
\* solve assembles on a grid with the same bus status, element state and slack
\* designation and no history (a raised dirty flag, nothing assembled
\* before): they depend on nothing else, and the same goes for what
\* compute_pf is given.
C10_AssemblyFromScratch ==
    (last.op \in SolveOps /\ last.pf.called) =>
        /\ Assembly(g) = Assembly(AssembledBy(SameStateNoHistory))
        /\ last.pf.Ybus = AssembledBy(SameStateNoHistory).Ybus_
        /\ last.pf.Sbus = AssembledBy(SameStateNoHistory).Sbus_

\* C10 happens: a solve has assembled on a grid with a history: a bus
\* deactivated, a changed slack designation, a third call at least.
C10_Witness ==
    /\ last.op \in SolveOps /\ last.pf.called /\ steps >= 3
    /\ \/ \E b \in BusIds : ~At(g.bus_status_, b)
       \/ g.gen_slackbus_ # 0

----
\* The families that only inject power and that GridModel.cpp leaves out of
\* its loops.
InjectionFamilies == {"sgens_", "storages_"}

\* The last call was a solve whose fillSbus_me returned without an error.
SbusFilled == last.op \in SolveOps /\ Ran("fillSbus_me") /\ last.err = ""

\* The grid with element id of collection f inactive and no history.
Without(f, id) == [SameStateNoHistory EXCEPT !.el[f][id + 1].status = FALSE]

\* The S entry of a bus.
SOf(grid, bus) == At(grid.Sbus_, At(grid.id_me_to_solver_, bus))

\* C11: after a solve has assembled S, every active static generator or
\* storage unit with a non-zero P, on a bus other than the slack bus (whose
\* entry is rebalanced), has changed the S entry of its bus: the entry is not
\* the one the same solve assembles with that element inactive.
C11_InjectionsStamped ==
    SbusFilled =>
        \A f \in InjectionFamilies : \A id \in Ids(f) :
            (/\ At(g.el[f], id).status
             /\ At(g.el[f], id).p # 0
             /\ At(g.id_me_to_solver_, At(g.el[f], id).bus) # g.slack_bus_id_solver_)
            => SOf(g, At(g.el[f], id).bus) # SOf(AssembledBy(Without(f, id)), At(g.el[f], id).bus)

----
\* The sum of what the active elements of a collection inject at a bus.
RECURSIVE InjectedBy(_, _, _, _)
InjectedBy(f, els, bus, ac) ==
    IF els = << >> THEN CZero
    ELSE CAdd(IF Head(els).status /\ Head(els).bus = bus
              THEN el_injection(f, Head(els), ac) ELSE CZero,
              InjectedBy(f, Tail(els), bus, ac))

\* The sum of what the collections fillSbus_me calls inject at a bus.
RECURSIVE InjectedAt(_, _, _, _)
InjectedAt(fams, el, bus, ac) ==
    IF fams = << >> THEN CZero
    ELSE CAdd(InjectedBy(Head(fams), el[Head(fams)], bus, ac),
              InjectedAt(Tail(fams), el, bus, ac))

\* S sums to 0 in its real part, and every entry is what the elements inject
\* at its bus, but for the real part of the slack entry.
SbusBalanced(Sbus, id_me_to_solver, slack_bus_id_solver, grid, ac) ==
    /\ SumReal(Sbus) = 0
    /\ \A b \in 0..(Len(grid.bus_status_) - 1) :
           At(id_me_to_solver, b) # deactivated_bus_id =>
               /\ At(Sbus, At(id_me_to_solver, b))[2] = InjectedAt(CppFamilies, grid.el, b, ac)[2]
               /\ At(id_me_to_solver, b) # slack_bus_id_solver =>
                      At(Sbus, At(id_me_to_solver, b)) = InjectedAt(CppFamilies, grid.el, b, ac)

\* C12: once fillSbus_me has returned, in ac_pf, dc_pf or dc_pf_old, the real
\* parts of S sum to 0 and every entry of S other than the real part of the
\* slack entry is the sum of what the elements stamped at that bus inject.
C12_SbusBalanced ==
    /\ SbusFilled =>
           SbusBalanced(g.Sbus_, g.id_me_to_solver_, g.slack_bus_id_solver_, g,
                        last.op = "ac_pf")
    /\ (last.op = "dc_pf_old" /\ Ran("fillSbus_me") /\ last.err = "") =>
           SbusBalanced(last.tmp.Sbus, last.tmp.id_me_to_solver,
                        last.tmp.slack_bus_id_solver, g, FALSE)

\* C12 happens: S was filled, a bus other than the slack bus has a non-zero
\* entry and the slack entry was corrected.
C12_Witness ==
    /\ SbusFilled
    /\ \E b \in BusIds :
           /\ At(g.id_me_to_solver_, b) \notin {deactivated_bus_id, g.slack_bus_id_solver_}
           /\ SOf(g, b) # CZero
    /\ At(g.Sbus_, g.slack_bus_id_solver_)
           # InjectedAt(CppFamilies, g.el, g.slack_bus_id_, last.op = "ac_pf")

----
\* The last call was an ac_pf or dc_pf whose solver converged and that
\* returned.
Converged == last.op \in SolveOps /\ last.pf.called /\ last.conv /\ last.err = ""

\* C13: a converged ac_pf or dc_pf returns a vector with an entry per bus, 0
\* at every disconnected bus and the solver's V at id_me_to_solver_[i] for
\* every connected bus i; a dc_pf_old that solved returns a vector with an
\* entry per bus, 0 at every disconnected bus.
C13_ReturnedVExpanded ==
    /\ Converged =>
           /\ Len(last.ret) = Len(g.bus_status_)
           /\ \A b \in BusIds :
                  At(last.ret, b) = IF At(g.bus_status_, b)
                                    THEN At(g.solver.V, At(g.id_me_to_solver_, b))
                                    ELSE VZero
    /\ (last.op = "dc_pf_old" /\ Ran("solve") /\ last.err = "") =>
           /\ Len(last.ret) = Len(g.bus_status_)
           /\ \A b \in BusIds : ~At(g.bus_status_, b) => At(last.ret, b) = VZero

\* C13 happens: a converged solve returned with a bus disconnected and a bus
\* connected whose entry is not 0.
C13_Witness ==
    /\ Converged
    /\ \E b \in BusIds : ~At(g.bus_status_, b)
    /\ \E b \in BusIds : At(g.bus_status_, b) /\ At(last.ret, b) # VZero

----
\* The fields of the instance that influence the assembly (bus_vn_kv_,
\* sn_mva_ and init_vm_pu_, which no call modelled writes, are not modelled).
AssemblyInputs(grid) == <<grid.bus_status_, grid.el, grid.gen_slackbus_>>

\* What the next solve, AC or DC, assembles on a grid as it is, history
\* included.
NextAssembly(grid, ac) ==
    Assembly(pre_process_solver(Running(grid), VinitOf(NBus), ac).g)

\* The call made in this step is g.set_state(g.get_state()).
RoundTrip_next == last'.op = "set_state" /\ last'.arg = <<get_state(g)>>

----
\* The storage units' table.
storage_table == TopoPass("storages_", 1, storage_pos_topo_vect_, storage_to_subid_)

\* Every table pair of the grid2op representation: those update_topo passes
\* on and the storage units' (GridModel.h:342-345, 371-374).
topo_tables ==
    update_topo_passes \o << storage_table >>

\* The bus of the end of an element a table is about.
EndBus(e, side) == IF side = 1 THEN e.bus ELSE e.bus2

\* What update_topo is asked for at the end el_id of a table: deactivated when
\* the value is <= 0, else active on the substation's bus (1) or on that bus
\* + n_sub_ (2).
TopoAsked(e, side, new_bus, subid) ==
    IF new_bus <= 0 THEN ~e.status
    ELSE /\ e.status
         /\ new_bus = 1 => EndBus(e, side) = subid
         /\ new_bus = 2 => EndBus(e, side) = subid + n_sub_

\* Is a position of element el_id of collection f flagged?
ElementFlagged(f, el_id, has_changed) ==
    \E k \in 1..Len(topo_tables) :
        /\ topo_tables[k].f = f
        /\ At(has_changed, At(topo_tables[k].vect_pos, el_id))

\* The claim of update_topo for one end: the end is as asked when its
\* position is flagged, else its bus is kept, and the status of its element
\* too when no position of the element is flagged.
TopoEndDone(old, new, tab, el_id, has_changed, new_values) ==
    IF At(has_changed, At(tab.vect_pos, el_id))
    THEN TopoAsked(At(new.el[tab.f], el_id), tab.side,
                   At(new_values, At(tab.vect_pos, el_id)), At(tab.vect_subid, el_id))
    ELSE /\ ElementFlagged(tab.f, el_id, has_changed)
                \/ At(new.el[tab.f], el_id).status = At(old.el[tab.f], el_id).status
         /\ EndBus(At(new.el[tab.f], el_id), tab.side)
                = EndBus(At(old.el[tab.f], el_id), tab.side)

\* The same for every end of the tables given.
TopoDone(old, new, tables, has_changed, new_values) ==
    \A k \in 1..Len(tables) :
        \A el_id \in 0..(Len(tables[k].vect_pos) - 1) :
            TopoEndDone(old, new, tables[k], el_id, has_changed, new_values)

\* C15: after update_topo(has_changed, new_values), every element whose
\* position in the topology vector is flagged is deactivated when the value
\* is <= 0, active on its substation's bus when it is 1 and active on that bus
\* + n_sub_ when it is 2; every element whose position is not flagged keeps
\* its status and its bus.
C15_TopoAsFlagged ==
    [][last'.op = "update_topo" =>
           TopoDone(g, g', topo_tables, last'.arg[1], last'.arg[2])]_vars

\* Are the flagged ends of every element asked the same thing: all to
\* disconnect or all to connect?
EndsAgree(tables, has_changed, new_values) ==
    \A k, l \in 1..Len(tables) :
        \A el_id \in 0..(Len(tables[k].vect_pos) - 1) :
            (/\ tables[l].f = tables[k].f
             /\ At(has_changed, At(tables[k].vect_pos, el_id))
             /\ At(has_changed, At(tables[l].vect_pos, el_id)))
                => ((At(new_values, At(tables[k].vect_pos, el_id)) <= 0)
                        <=> (At(new_values, At(tables[l].vect_pos, el_id)) <= 0))

\* The same for the ends update_topo passes on, storage units left out, when
\* the two ends of a line or transformer are not asked one to disconnect and
\* the other to connect.
TopoAsFlaggedButStorages ==
    [][(last'.op = "update_topo"
            /\ EndsAgree(update_topo_passes, last'.arg[1], last'.arg[2])) =>
           TopoDone(g, g', update_topo_passes, last'.arg[1], last'.arg[2])]_vars

\* The storage unit el_id is as update_topo was asked when its position is
\* flagged.
StorageDone(new, el_id, has_changed, new_values) ==
    At(has_changed, At(storage_table.vect_pos, el_id)) =>
        TopoAsked(At(new.el[storage_table.f], el_id), storage_table.side,
                  At(new_values, At(storage_table.vect_pos, el_id)),
                  At(storage_table.vect_subid, el_id))

\* C16: after update_topo(has_changed, new_values), a storage unit whose
\* position is flagged is deactivated when the value is <= 0 and active on
\* the requested bus when it is > 0.
C16_TopoReachesStorages ==
    [][last'.op = "update_topo" =>
           \A el_id \in 0..(Len(storage_table.vect_pos) - 1) :
               StorageDone(g', el_id, last'.arg[1], last'.arg[2])]_vars

----
\* The buses a row of update_bus_status addresses.
Addressed(nb_bus_before, active_bus) ==
    UNION { {i, i + nb_bus_before} : i \in 0..(Len(active_bus) - 1) }

----
\* An element with one setpoint replaced.
WithSetpoint(e, field, x) ==
    CASE field = "p" -> [e EXCEPT !.p = x]
      [] field = "q" -> [e EXCEPT !.q = x]
      [] field = "v" -> [e EXCEPT !.v = x]

----
\* C19: add_gen_slackbus(gen_id) with 0 <= gen_id < the number of generators
\* sets the slack generator to gen_id; with any other gen_id it raises an
\* error and leaves the slack generator as it was.
C19_SlackIdInRange ==
    [][last'.op = "add_gen_slackbus" =>
           IF 0 <= last'.arg[1] /\ last'.arg[1] < Len(g.el.generators_)
           THEN last'.err = "" /\ g'.gen_slackbus_ = last'.arg[1]
           ELSE last'.err # "" /\ g'.gen_slackbus_ = g.gen_slackbus_]_vars

----
\* deactivate_X(id) then reactivate_X(id), deactivate_bus(b) then
\* reactivate_bus(b).
ElementPair(grid, f, id) == change_el_status(change_el_status(grid, f, id, FALSE), f, id, TRUE)
BusPair(grid, b) == change_bus_status(change_bus_status(grid, b, FALSE), b, TRUE)

\* The pair of calls has left the inputs of the assembly as they were and
\* the next solve assembles asm_ac (AC) or asm_dc (DC).
Restored(grid, after, asm_ac, asm_dc) ==
    /\ AssemblyInputs(after) = AssemblyInputs(grid)
    /\ NextAssembly(after, TRUE) = asm_ac
    /\ NextAssembly(after, FALSE) = asm_dc

\* Every pair of calls on an element, and on a bus, restores the grid; the
\* pairs are those on any element and bus, or those on the active elements and
\* connected buses only.
PairsRestore(grid, active_only, asm_ac, asm_dc) ==
    /\ \A f \in FamilySet : \A id \in 0..(Len(grid.el[f]) - 1) :
           (active_only => At(grid.el[f], id).status)
               => Restored(grid, ElementPair(grid, f, id), asm_ac, asm_dc)
    /\ \A b \in BusIds :
           (active_only => At(grid.bus_status_, b))
               => Restored(grid, BusPair(grid, b), asm_ac, asm_dc)

\* C20 as stated: on a grid where a call can follow, deactivate_X(id) then
\* reactivate_X(id), for any element of any collection, and deactivate_bus(b)
\* then reactivate_bus(b), for any bus, restore the element and bus state, and
\* the next solve assembles the Y, S, pv and pq it would have assembled before
\* the pair.
C20_PairRestoresAsStated ==
    steps < MaxSteps =>
        PairsRestore(g, FALSE, NextAssembly(g, TRUE), NextAssembly(g, FALSE))

\* C20: on a grid where a call can follow, deactivate_X(id) then
\* reactivate_X(id), for an element that is active, and deactivate_bus(b)
\* then reactivate_bus(b), for a bus that is connected, restore the element
\* and bus state, and the next solve assembles the Y, S, pv and pq it would
\* have assembled before the pair.
C20_PairRestores ==
    steps < MaxSteps =>
        PairsRestore(g, TRUE, NextAssembly(g, TRUE), NextAssembly(g, FALSE))

\* C20 happens: the second call reactivated an element that was inactive, and
\* the grid is the initial one again: the first call deactivated it.
C20_Witness ==
    /\ last.op = "reactivate" /\ last.arg[3] = FALSE /\ steps = 2
    /\ AssemblyInputs(g) = AssemblyInputs(InitGrid(-1))

----
\* What reset() leaves: nothing assembled, a raised dirty flag, a solver that
\* holds nothing.
ResetState(grid) ==
    /\ grid.Ybus_ = << >> /\ grid.Sbus_ = << >>
    /\ grid.id_me_to_solver_ = << >> /\ grid.id_solver_to_me_ = << >>
    /\ grid.bus_pv_ = << >> /\ grid.bus_pq_ = << >>
    /\ grid.slack_bus_id_solver_ = -1
    /\ grid.need_reset_
    /\ grid.solver.state = "reset" /\ grid.solver.V = << >>

\* C21: on every grid reached, reset(); reset() leaves what a single reset()
\* leaves: nothing assembled, slack_bus_id_solver_ = -1, need_reset_ raised,
\* the solver reset; and reset() leaves the bus status, the element
\* collections, the slack generator and the selected solver type as they
\* were.
C21_ResetIdempotent ==
    /\ reset(reset(g)) = reset(g)
    /\ ResetState(reset(g))
    /\ AssemblyInputs(reset(g)) = AssemblyInputs(g)
    /\ reset(g).solver.type = g.solver.type

\* C21 happens: set_state has run reset() on a grid a converged solve had
\* assembled and projected results on, and the grid is as reset() leaves it.
C21_Witness ==
    /\ last.op = "set_state" /\ steps >= 2
    /\ g.res.loads_ = "computed"
    /\ ResetState(g) /\ reset(g) = g

----
\* C22: after a converged solve with result computation enabled every
\* collection, static generators and storage units included, has its results
\* recorded; after a diverged solve every collection has its results cleared.
C22_ResultsForEveryFamily ==
    (last.op \in SolveOps /\ last.pf.called /\ last.err = "") =>
        /\ (last.conv /\ g.compute_results_) => \A f \in FamilySet : g.res[f] = "computed"
        /\ ~last.conv => \A f \in FamilySet : g.res[f] = "empty"

----
\* The last call was a dc_pf_old that solved its reduced system and returned.
SolvedOld == last.op = "dc_pf_old" /\ Ran("solve") /\ last.err = ""

\* The index of solver bus k once the slack is removed.
Reduced(k, slack) == IF k > slack THEN k - 1 ELSE k

\* C23: in the vector a dc_pf_old that solved returns, the angle of the slack
\* bus is the angle of Vinit at the slack bus, and the angle of every other
\* connected bus i is that angle plus the solved angle at index
\* id_me_to_solver[i], one less when that is above the slack's solver index.
C23_DcAnglesReinserted ==
    SolvedOld =>
        /\ At(last.ret, g.slack_bus_id_).va = At(VinitOf(NBus), g.slack_bus_id_).va
        /\ \A b \in BusIds :
               (b # g.slack_bus_id_ /\ At(g.bus_status_, b)) =>
                   At(last.ret, b).va =
                       At(last.tmp.Va_dc, Reduced(At(last.tmp.id_me_to_solver, b),
                                                  last.tmp.slack_bus_id_solver))
                       + At(VinitOf(NBus), g.slack_bus_id_).va

\* C23 happens: dc_pf_old solved with three solver buses, the slack in the
\* middle: a bus below it and a bus above it.
C23_Witness ==
    /\ SolvedOld
    /\ Len(last.tmp.id_solver_to_me) = 3
    /\ last.tmp.slack_bus_id_solver = 1
    /\ Len(last.ret) = NBus

----
\* Is a sequence of numbers strictly increasing?
StrictlyIncreasing(v) == \A i \in 1..(Len(v) - 1) : v[i] < v[i + 1]

\* The maps are dense and in scan order.
ScanOrder(grid, ext_to_solver, solver_to_ext) ==
    /\ StrictlyIncreasing(solver_to_ext)
    /\ Len(solver_to_ext) = nb_bus(grid)
    /\ Len(ext_to_solver) = Len(grid.bus_status_)

\* C24: after every successful init_Ybus (in pre_process_solver or in
\* dc_pf_old) solver_to_ext is strictly increasing, its length is nb_bus(),
\* the number of connected buses, and ext_to_solver has an entry per bus.
C24_DenseInScanOrder ==
    /\ (Mapped /\ Ran("reset")) => ScanOrder(g, g.id_me_to_solver_, g.id_solver_to_me_)
    /\ MappedOld => ScanOrder(g, last.tmp.id_me_to_solver, last.tmp.id_solver_to_me)

\* C24 happens: a solve assembled with the middle bus disconnected.
C24_Witness ==
    /\ Mapped /\ last.err = ""
    /\ g.bus_status_ = <<TRUE, FALSE, TRUE>>
    /\ g.id_solver_to_me_ = <<0, 2>>

----
\* The reduced system is Y and S without the slack row, column and entry:
\* real parts, at the reduced indices.
Stripped(Y, S, slack, dcYbus, dcSbus) ==
    /\ Len(dcYbus) = Len(Y) - 1
    /\ \A r \in 1..Len(dcYbus) : Len(dcYbus[r]) = Len(Y) - 1
    /\ Len(dcSbus) = Len(S) - 1
    /\ \A k \in (0..(Len(Y) - 1)) \ {slack} :
           /\ Reduced(k, slack) \in 0..(Len(Y) - 2)
           /\ At(dcSbus, Reduced(k, slack)) = At(S, k)[1]
           /\ \A j \in (0..(Len(Y) - 1)) \ {slack} :
                  /\ (Reduced(j, slack) = Reduced(k, slack)) => j = k
                  /\ At(At(dcYbus, Reduced(k, slack)), Reduced(j, slack)) = At(At(Y, k), j)[1]

\* C25: in a dc_pf_old that solved, the reduced matrix is (K-1) x (K-1) and
\* holds the real part of every entry of Y whose row and column are not the
\* slack's, at the row and column decreased by one when above the slack's; the
\* reduced right-hand side holds Re(S[k]) of every k but the slack at the same
\* reduced index; the reduced indices lie in 0..K-2 and no two k share one.
C25_SlackStripped ==
    SolvedOld =>
        Stripped(last.tmp.Ybus, last.tmp.Sbus, last.tmp.slack_bus_id_solver,
                 last.tmp.dcYbus, last.tmp.dcSbus)

\* C25 happens: dc_pf_old solved with the slack in the middle of three solver
\* buses, and the reduced matrix couples the two buses left.
C25_Witness ==
    /\ SolvedOld
    /\ Len(last.tmp.Ybus) = 3
    /\ last.tmp.slack_bus_id_solver = 1
    /\ At(At(last.tmp.dcYbus, 0), 1) # 0

----
\* C26: whenever a dc_pf call ends, by returning or by raising, the selected
\* solver type is the one selected before the call.
C26_DcPfRestoresSolverType ==
    [][last'.op = "dc_pf" => g'.solver.type = g.solver.type]_vars

----
\* Is an end of element el_id of collection f flagged with a value <= 0?
EndFlaggedOff(f, el_id, has_changed, new_values) ==
    \E k \in 1..Len(update_topo_passes) :
        /\ update_topo_passes[k].f = f
        /\ At(has_changed, At(update_topo_passes[k].vect_pos, el_id))
        /\ At(new_values, At(update_topo_passes[k].vect_pos, el_id)) <= 0

\* C27: after update_topo(has_changed, new_values), a line or a transformer
\* with the position of either end flagged with a value <= 0 is inactive,
\* whatever is given for its other end.
C27_DisconnectedAsAWhole ==
    [][last'.op = "update_topo" =>
           \A f \in {"powerlines_", "trafos_"} :
               \A el_id \in 0..(Len(g.el[f]) - 1) :
                   EndFlaggedOff(f, el_id, last'.arg[1], last'.arg[2])
                       => ~At(g'.el[f], el_id).status]_vars

----
\* Has the copy what the grid has: bus status, the seven collections, the
\* slack generator and the solver type, and is it marked for reassembly?
SameGrid(res, grid) ==
    /\ res.bus_status_ = grid.bus_status_
    /\ \A f \in FamilySet : res.el[f] = grid.el[f]
    /\ res.gen_slackbus_ = grid.gen_slackbus_
    /\ res.solver.type = grid.solver.type
    /\ res.need_reset_

\* C28: the grid copy() returns has the bus status, lines, shunts,
\* transformers, generators, loads, static generators, storage units, slack
\* generator and solver type of the grid copied, and is marked for reassembly.
C28_CopyIsTheSameGrid ==
    last.op = "copy" => SameGrid(last.arg[1], g)
====
